---- MODULE Spec2Model ----
(***************************************************************************)
(* lexRain: the SM-2 scheduler (src/src/sm2.rs), the progress store        *)
(* (src/src/db.rs) and the review session of both front ends               *)
(* (src/src/components/review.rs with src/src/app_v2.rs, and               *)
(* src/src/app.rs with src/src/main.rs).                                   *)
(*                                                                         *)
(* Floating point.  e_factor is an f64.  A value v is held as the record   *)
(* [h |-> H, n |-> N] with v = H/100 + N * Unit, Unit = 2^-60 / 100: H is   *)
(* the decimal value in hundredths and N the (small) distance of the f64   *)
(* from that decimal.  Every f64 operation of the source is the exact      *)
(* operation followed by RoundF64, IEEE-754 round to nearest, ties to      *)
(* even, on the grid of the result's binade.                               *)
(***************************************************************************)
EXTENDS Integers, Sequences, FiniteSets, TLC

VARIABLES
    \* the scheduler driven alone: the log it started from, the log now, the
    \* log before the last review, and the grades applied so far
    origin, card, before, grades,
    \* the application: --v2 (AppV2 with ReviewComponent) or the first App
    arch,
    current_screen,
    show_completion_message,
    \* the review session (ReviewComponent's fields, App's review fields)
    review_queue, current_item, state, total_count, completed_count,
    \* the progress store: the tables learning_log and review_history
    learning_log, review_history,
    \* Utc::now(), in days
    now,
    \* what the last handler returned to the main loop, "Ok" or "Err"; the
    \* main loop returns on "Err" and the process ends
    result,
    \* history variables: the last event with the session as it was before
    \* it, the grade operations of the running session, the rows update_log
    \* has written per word, the daily check-ins made
    ev, session_grades, updates, checkins

schedVars == <<origin, card, before, grades>>
sessionVars == <<review_queue, current_item, state, total_count, completed_count>>
storeVars == <<learning_log, review_history, updates, checkins>>
appVars == <<arch, current_screen, show_completion_message, sessionVars,
             storeVars, now, result, ev, session_grades>>
vars == <<schedVars, appVars>>

(***************************************************************************)
(* Bounds of the model.                                                    *)
(***************************************************************************)
MaxRep == 9
MaxGrades == 5
MaxQuality == 5
MaxEf == 250
NumWords == 2
MaxNow == 1
MaxHistory == 2
\* the limit start_learn_new passes to get_new_words_to_learn (20), scaled
LearnLimit == 2

(***************************************************************************)
(* f64 arithmetic                                                          *)
(***************************************************************************)
F64(h, n) == [h |-> h, n |-> n]

\* v >= 2^e for a positive v = h/100 + n*Unit, e in -6..
GE2(h, n, e) ==
    IF e >= 0
    THEN h > 100 * 2^e \/ (h = 100 * 2^e /\ n >= 0)
    ELSE h * 2^(0 - e) > 100 \/ (h * 2^(0 - e) = 100 /\ n >= 0)

\* the binade of a positive v >= 2^-6: the e with 2^e <= v < 2^(e+1)
Binade(h, n) ==
    CHOOSE e \in -6..12 : GE2(h, n, e) /\ ~GE2(h, n, e + 1)

\* one unit in the last place of binade e, in Units: 2^(e-52) / Unit
Ulp(e) == 100 * 2^(e + 8)

\* (h * 2^60 + n) modulo 2 * Ulp(e): 2^k mod 100 has period 20 for k >= 2
Residue(h, n, e) ==
    ( 2^(e + 9) * (((h % 100) * ((2^(((49 - e) % 20) + 2)) % 100)) % 100) + n )
        % (2 * Ulp(e))

\* the multiple of the grid G nearest to the exact value, ties to the even
\* multiple; R is the value modulo G and odd the parity of the multiple below
Nearest(h, n, G, R, odd) ==
    IF 2 * R < G \/ (2 * R = G /\ ~odd) THEN F64(h, n - R) ELSE F64(h, n + (G - R))

RoundOnGrid(h, n, G, M) == Nearest(h, n, G, M % G, M >= G)
RoundInBinade(h, n, e) == RoundOnGrid(h, n, Ulp(e), Residue(h, n, e))

\* round to nearest, ties to even, of a positive exact value
RoundPos(h, n) == IF h < 2 THEN F64(h, n) ELSE RoundInBinade(h, n, Binade(h, n))

Signed(sign, f) == F64(sign * f.h, sign * f.n)
RoundSigned(sign, h, n) == Signed(sign, RoundPos(sign * h, sign * n))
RoundF64(h, n) == RoundSigned(IF h < 0 THEN -1 ELSE 1, h, n)

\* a decimal literal of the source, in hundredths
Lit(h) == RoundF64(h, 0)
\* x as f64 * f, x an integer
MulInt(x, f) == RoundF64(x * f.h, x * f.n)
AddF(f, g) == RoundF64(f.h + g.h, f.n + g.n)
SubF(f, g) == RoundF64(f.h - g.h, f.n - g.n)
LessF(f, g) == f.h < g.h \/ (f.h = g.h /\ f.n < g.n)

\* f64::round (half away from zero) as i32, of a value >= 0
RoundToInt(f) ==
    LET q == f.h \div 100
        r == f.h % 100
    IN  IF r > 50 \/ (r = 50 /\ f.n >= 0) THEN q + 1 ELSE q

(***************************************************************************)
(* sm2.rs                                                                  *)
(***************************************************************************)
New == "New"
Learning == "Learning"
Mastered == "Mastered"

\* lines 21-33, next_interval
NextIntervalFromNextRepetition(current_repetition, current_ef, quality) ==
    IF quality >= 3
    THEN IF current_repetition = 0 THEN 1
         ELSE IF current_repetition = 1 THEN 6
         ELSE RoundToInt(MulInt(current_repetition + 1, current_ef))
    ELSE 1

NextIntervalSecondFromEf(current_repetition, current_ef, quality) ==
    IF quality >= 3
    THEN IF current_repetition = 0 THEN 1
         ELSE RoundToInt(MulInt(6 * current_repetition, current_ef))
    ELSE 1

NextIntervalFirstZero(current_repetition, current_ef, quality) ==
    IF quality >= 3
    THEN IF current_repetition = 0 THEN 0
         ELSE IF current_repetition = 1 THEN 6
         ELSE RoundToInt(MulInt(current_repetition, current_ef))
    ELSE 1

NextIntervalLapseZero(current_repetition, current_ef, quality) ==
    IF quality >= 3
    THEN IF current_repetition = 0 THEN 1
         ELSE IF current_repetition = 1 THEN 6
         ELSE RoundToInt(MulInt(current_repetition, current_ef))
    ELSE 0

NextInterval(current_repetition, current_ef, quality) ==
    IF quality >= 3
    THEN IF current_repetition = 0 THEN 1
         ELSE IF current_repetition = 1 THEN 6
         ELSE RoundToInt(MulInt(current_repetition, current_ef))
    ELSE 1

\* lines 18-33, next_repetition
NextRepetitionLapseKeeps(current_repetition, quality) ==
    IF quality >= 3 THEN current_repetition + 1 ELSE current_repetition

NextRepetition(current_repetition, quality) ==
    IF quality >= 3 THEN current_repetition + 1 ELSE 0

DeltaLinear(x) == SubF(Lit(10), MulInt(x, Lit(8)))

\* EF' = EF + (0.1 - (5 - q) * (0.08 + (5 - q) * 0.02))
Delta(x) == SubF(Lit(10), MulInt(x, AddF(Lit(8), MulInt(x, Lit(2)))))

\* if next_ef < 1.3 { next_ef = 1.3 }
AtLeast(next_ef, floor) == IF LessF(next_ef, floor) THEN floor ELSE next_ef

NextEfFloorOnPassOnly(current_ef, quality) ==
    IF quality >= 3
    THEN AtLeast(AddF(current_ef, Delta(5 - quality)), Lit(130))
    ELSE AddF(current_ef, Delta(5 - quality))

NextEfFourPointScale(current_ef, quality) ==
    AtLeast(AddF(current_ef, Delta(4 - quality)), Lit(130))

NextEfOnPassOnly(current_ef, quality) ==
    IF quality >= 3
    THEN AtLeast(AddF(current_ef, Delta(5 - quality)), Lit(130))
    ELSE current_ef

NextEfEasyRaises(current_ef, quality) ==
    IF quality = 4 THEN AddF(current_ef, Lit(10))
    ELSE AtLeast(AddF(current_ef, Delta(5 - quality)), Lit(130))

NextEf(current_ef, quality) ==
    AtLeast(AddF(current_ef, Delta(5 - quality)), Lit(130))

update_memory_state(current_repetition, current_ef, quality) ==
    <<NextRepetition(current_repetition, quality),
      NextInterval(current_repetition, current_ef, quality),
      NextEf(current_ef, quality)>>

\* process_review from the tuple update_memory_state returned on
Reviewed_log_lapse_keeps_status(log, quality, t, n, i, ef) ==
    [word_id |-> log.word_id,
     repetition |-> n,
     interval |-> i,
     e_factor |-> ef,
     next_review |-> t + i,
     status |-> IF quality >= 3
                THEN IF i > 21 THEN Mastered ELSE Learning
                ELSE log.status]

Reviewed_log_due_at_review(log, quality, t, n, i, ef) ==
    [word_id |-> log.word_id,
     repetition |-> n,
     interval |-> i,
     e_factor |-> ef,
     next_review |-> t,
     status |-> IF quality >= 3
                THEN IF i > 21 THEN Mastered ELSE Learning
                ELSE Learning]

Reviewed_log_mastered_from_twenty(log, quality, t, n, i, ef) ==
    [word_id |-> log.word_id,
     repetition |-> n,
     interval |-> i,
     e_factor |-> ef,
     next_review |-> t + i,
     status |-> IF quality >= 3
                THEN IF i >= 20 THEN Mastered ELSE Learning
                ELSE Learning]

Reviewed_log(log, quality, t, n, i, ef) ==
    [word_id |-> log.word_id,
     repetition |-> n,
     interval |-> i,
     e_factor |-> ef,
     next_review |-> t + i,
     status |-> IF quality >= 3
                THEN IF i > 21 THEN Mastered ELSE Learning
                ELSE Learning]

Unpacked(log, quality, t, r) == Reviewed_log(log, quality, t, r[1], r[2], r[3])

process_review(log, quality, t) ==
    Unpacked(log, quality, t,
             update_memory_state(log.repetition, log.e_factor, quality))

(***************************************************************************)
(* models.rs, db.rs: the progress store                                    *)
(***************************************************************************)
Words == 1..NumWords
\* no row for the word in learning_log; Option::None
NoRow == [absent |-> TRUE]
None == [none |-> TRUE]

LearningLog(w, n, i, ef, t, s) ==
    [word_id |-> w, repetition |-> n, interval |-> i, e_factor |-> ef,
     next_review |-> t, status |-> s]

\* init_learning_log: VALUES (?1, 0, 0, 2.5, ?2, 0)
DefaultLog(w, t) == LearningLog(w, 0, 0, Lit(250), t, New)

\* DateTime<Utc>::to_rfc3339 of the instant <<day, nanos>>, as character
\* codes: the date and time of day are fields of fixed width (here the day,
\* two digits), the fraction of the second has no digits if it is zero, else
\* 3, 6 or 9, whichever is the fewest that hold it, and the offset is +00:00
Digits(x, width) == [k \in 1..width |-> 48 + ((x \div 10^(width - k)) % 10)]

Fraction(nanos) ==
    IF nanos = 0 THEN <<>>
    ELSE IF nanos % 1000000 = 0 THEN <<46>> \o Digits(nanos \div 1000000, 3)
    ELSE IF nanos % 1000 = 0 THEN <<46>> \o Digits(nanos \div 1000, 6)
    ELSE <<46>> \o Digits(nanos, 9)

to_rfc3339(instant) ==
    Digits(instant[1], 2) \o Fraction(instant[2]) \o <<43, 48, 48, 58, 48, 48>>

\* a <= b for two TEXT values of SQLite (memcmp, the shorter first on a tie)
RECURSIVE TextLeq(_, _)
TextLeq(a, b) ==
    IF a = <<>> THEN TRUE
    ELSE IF b = <<>> THEN FALSE
    ELSE IF Head(a) # Head(b) THEN Head(a) < Head(b)
    ELSE TextLeq(Tail(a), Tail(b))

IsDueStrictly(row, t) == row.next_review < t

\* WHERE next_review <= ?1, on whole days
IsDue(row, t) == row.next_review <= t

\* get_due_reviews: the rows that are due, ORDER BY next_review ASC; rows
\* with the same next_review come in any order
get_due_reviews(table, t) ==
    LET due == {w \in Words : table[w] # NoRow /\ IsDue(table[w], t)}
        n == Cardinality(due)
    IN  {[k \in 1..n |-> table[s[k]]] :
            s \in {x \in [1..n -> due] :
                     /\ \A j, k \in 1..n : j # k => x[j] # x[k]
                     /\ \A j, k \in 1..n :
                          j < k => table[x[j]].next_review <= table[x[k]].next_review}}

\* get_due_reviews when get_word_by_id fails for the words in lost: their
\* rows are left out of the result (if let Ok(word) = ...)
get_due_reviews_without(table, t, lost) ==
    get_due_reviews([w \in Words |-> IF w \in lost THEN NoRow ELSE table[w]], t)

\* update_log: UPDATE learning_log SET ... WHERE word_id = ?6
update_log(table, log) ==
    IF table[log.word_id] = NoRow THEN table
    ELSE [table EXCEPT ![log.word_id] = log]

init_learning_log_resets(table, word_id, t) ==
    [table EXCEPT ![word_id] = DefaultLog(word_id, t)]

\* init_learning_log: INSERT the default row if the word has no row
init_learning_log(table, word_id, t) ==
    IF table[word_id] = NoRow
    THEN [table EXCEPT ![word_id] = DefaultLog(word_id, t)]
    ELSE table

\* self.init_learning_log(word_id)? for each word the dictionary returned
RECURSIVE Initialized(_, _, _)
Initialized(table, picked, t) ==
    IF picked = <<>> THEN table
    ELSE Initialized(init_learning_log(table, Head(picked), t), Tail(picked), t)

\* SELECT ... FROM learning_log WHERE status = 0 ORDER BY word_id ASC
NewRows(table) ==
    SelectSeq([w \in 1..NumWords |-> table[w]],
              LAMBDA row : row # NoRow /\ row.status = New)

Min(a, b) == IF a <= b THEN a ELSE b
Max(a, b) == IF a >= b THEN a ELSE b

\* SELECT ... FROM stardict WHERE id NOT IN (existing_ids) ... LIMIT needed:
\* every word of the dictionary passes the filters; the ranking of the
\* dictionary is any order of them
stardict_unseen(table, needed) ==
    LET unseen == {w \in Words : table[w] = NoRow}
        n == Max(0, Min(needed, Cardinality(unseen)))
    IN  {x \in [1..n -> unseen] : \A j, k \in 1..n : j # k => x[j] # x[k]}

\* the second loop of get_new_words_to_learn: each row is pushed, then the
\* loop breaks if results.len() >= limit
Pushed(results, rows, limit) ==
    results \o SubSeq(rows, 1, Min(Len(rows), Max(1, limit - Len(results))))

\* get_new_words_to_learn after the rows of the picked words are inserted
Materialized(table, picked, limit) ==
    [queue |-> Pushed([k \in 1..Len(picked) |-> table[picked[k]]],
                      NewRows(table), limit),
     table |-> table]

\* get_new_words_to_learn(limit): the Vec returned and learning_log after it;
\* picked is what the query of stardict returns
get_new_words_to_learn(table, limit, t, picked) ==
    IF Len(NewRows(table)) >= limit
    THEN [queue |-> SubSeq(NewRows(table), 1, limit), table |-> table]
    ELSE Materialized(Initialized(table, picked, t), picked, limit)

add_review_history_without_snapshot(history, word_id, quality, log, t) ==
    Append(history,
           [word_id |-> word_id, reviewed_at |-> t, quality |-> quality,
            repetition |-> 0, interval |-> 0, e_factor |-> Lit(250)])

add_review_history_replaces(history, word_id, quality, log, t) ==
    Append(SelectSeq(history, LAMBDA r : r.word_id # word_id),
           [word_id |-> word_id, reviewed_at |-> t, quality |-> quality,
            repetition |-> log.repetition, interval |-> log.interval,
            e_factor |-> log.e_factor])

\* add_review_history: INSERT INTO review_history
add_review_history(history, word_id, quality, log, t) ==
    Append(history,
           [word_id |-> word_id, reviewed_at |-> t, quality |-> quality,
            repetition |-> log.repetition, interval |-> log.interval,
            e_factor |-> log.e_factor])

(***************************************************************************)
(* components/review.rs: ReviewComponent                                   *)
(***************************************************************************)
Session(queue, item, st, total, completed) ==
    [review_queue |-> queue, current_item |-> item, state |-> st,
     total_count |-> total, completed_count |-> completed]

\* ReviewComponent::new
NewSession == Session(<<>>, None, "Question", 0, 0)

Db(table, history, written, checked) ==
    [learning_log |-> table, review_history |-> history, updates |-> written,
     checkins |-> checked]

\* what a handler leaves behind: the session, the store, Ok or Err, and the
\* Action it returned
Outcome(s, db, res, action) ==
    [session |-> s, db |-> db, result |-> res, action |-> action]

\* Vec::pop: the last element, or None
Pop(queue) == IF queue = <<>> THEN None ELSE queue[Len(queue)]
Rest(queue) == IF queue = <<>> THEN <<>> ELSE SubSeq(queue, 1, Len(queue) - 1)

next_card_from_front(s) ==
    [s EXCEPT !.current_item = IF s.review_queue = <<>> THEN None
                               ELSE Head(s.review_queue),
              !.review_queue = IF s.review_queue = <<>> THEN <<>>
                               ELSE Tail(s.review_queue),
              !.state = "Question"]

next_card_keeps_queue(s) ==
    [s EXCEPT !.current_item = Pop(s.review_queue), !.state = "Question"]

next_card_keeps_state(s) ==
    [s EXCEPT !.current_item = Pop(s.review_queue),
              !.review_queue = Rest(s.review_queue)]

next_card(s) ==
    [s EXCEPT !.current_item = Pop(s.review_queue),
              !.review_queue = Rest(s.review_queue),
              !.state = "Question"]

Loaded(s, queue) ==
    [s EXCEPT !.review_queue = queue, !.total_count = Len(queue),
              !.completed_count = 0]

\* start_review from the loaded queue on: the session and the bool returned
ReviewComponent_start_review_serves_empty(s, queue) ==
    [session |-> next_card(Loaded(s, queue)), started |-> TRUE]

ReviewComponent_start_review(s, queue) ==
    IF queue = <<>>
    THEN [session |-> Loaded(s, queue), started |-> FALSE]
    ELSE [session |-> next_card(Loaded(s, queue)), started |-> TRUE]

show_answer_advances(s) == [next_card(s) EXCEPT !.state = "Answer"]

show_answer(s) == [s EXCEPT !.state = "Answer"]

is_complete(s) == s.current_item = None

\* self.current_item.take()
Taken(s) == [s EXCEPT !.current_item = None]
CountedTwice(s) == [s EXCEPT !.completed_count = @ + 2]
Counted(s) == [s EXCEPT !.completed_count = @ + 1]

\* self.db.update_log(&log)
WithLog(db, log) ==
    [db EXCEPT !.learning_log = update_log(@, log),
               !.updates = IF db.learning_log[log.word_id] = NoRow THEN @
                           ELSE [@ EXCEPT ![log.word_id] = @ + 1]]

\* self.db.add_review_history(word_id, quality, &log)
WithHistory(db, quality, log, t) ==
    [db EXCEPT !.review_history =
                 add_review_history(@, log.word_id, quality, log, t)]

\* let _ = self.db.update_daily_checkin()
WithCheckin(db) == [db EXCEPT !.checkins = @ + 1]
\* the same when the call may fail: the Result is dropped
Checked(db, fail) == IF fail = "update_daily_checkin" THEN db ELSE WithCheckin(db)

\* submit_review after current_item.take() and process_review: s is the
\* session without its item, log the reviewed log; fail names the write that
\* fails, if one does
ReviewComponent_submitted_restores_item(s, db, quality, fail, t, log) ==
    IF fail = "update_log"
    THEN Outcome([s EXCEPT !.current_item = log], db, "Err", "None")
    ELSE IF fail = "add_review_history"
    THEN Outcome([s EXCEPT !.current_item = log], WithLog(db, log), "Err", "None")
    ELSE Outcome(next_card(Counted(s)),
                 Checked(WithHistory(WithLog(db, log), quality, log, t), fail),
                 "Ok", "None")

ReviewComponent_submitted_requeues_lapse(s, db, quality, fail, t, log) ==
    IF fail = "update_log"
    THEN Outcome(s, db, "Err", "None")
    ELSE IF fail = "add_review_history"
    THEN Outcome(s, WithLog(db, log), "Err", "None")
    ELSE Outcome(next_card([Counted(s) EXCEPT !.review_queue =
                               IF quality < 3 THEN <<log>> \o @ ELSE @]),
                 Checked(WithHistory(WithLog(db, log), quality, log, t), fail),
                 "Ok", "None")

ReviewComponent_submitted_history_first(s, db, quality, fail, t, log) ==
    IF fail = "update_log"
    THEN Outcome(s, WithHistory(db, quality, log, t), "Err", "None")
    ELSE IF fail = "add_review_history"
    THEN Outcome(s, db, "Err", "None")
    ELSE Outcome(next_card(Counted(s)),
                 Checked(WithLog(WithHistory(db, quality, log, t), log), fail),
                 "Ok", "None")

ReviewComponent_submitted(s, db, quality, fail, t, log) ==
    IF fail = "update_log"
    THEN Outcome(s, db, "Err", "None")
    ELSE IF fail = "add_review_history"
    THEN Outcome(s, WithLog(db, log), "Err", "None")
    ELSE Outcome(next_card(Counted(s)),
                 Checked(WithHistory(WithLog(db, log), quality, log, t), fail),
                 "Ok", "None")

ReviewComponent_submit_review(s, db, quality, fail, t) ==
    IF s.current_item = None
    THEN Outcome(s, db, "Ok", "None")
    ELSE ReviewComponent_submitted(Taken(s), db, quality, fail, t,
                                   process_review(s.current_item, quality, t))

GradeKeys == {"1", "2", "3", "4"}
ReviewKeys == {"q", " ", "x"} \cup GradeKeys
QualityFivePoint(key) == CASE key = "1" -> 2 [] key = "2" -> 3 [] key = "3" -> 4
                            [] key = "4" -> 5

Quality(key) == CASE key = "1" -> 1 [] key = "2" -> 2 [] key = "3" -> 3
                  [] key = "4" -> 4

\* if self.is_complete() { NavigateTo(Dashboard) } else { Action::None }
Graded(o) ==
    IF o.result = "Ok" /\ is_complete(o.session)
    THEN [o EXCEPT !.action = "NavigateTo(Dashboard)"]
    ELSE o

ReviewComponent_handle_key_quit_grades(s, db, key, fail, t) ==
    IF key = "q"
    THEN [ReviewComponent_submit_review(s, db, 1, "none", t)
            EXCEPT !.action = "NavigateTo(Dashboard)"]
    ELSE IF s.state = "Question"
    THEN IF key = " " THEN Outcome(show_answer(s), db, "Ok", "None")
         ELSE Outcome(s, db, "Ok", "None")
    ELSE IF key \in GradeKeys
    THEN Graded(ReviewComponent_submit_review(s, db, Quality(key), fail, t))
    ELSE Outcome(s, db, "Ok", "None")

\* handle_key: 'q' stands for 'q' and Esc, ' ' for ' ' and Enter, 'x' for
\* every key that is none of these and no grade
ReviewComponent_handle_key(s, db, key, fail, t) ==
    IF key = "q" THEN Outcome(s, db, "Ok", "NavigateTo(Dashboard)")
    ELSE IF s.state = "Question"
    THEN IF key = " " THEN Outcome(show_answer(s), db, "Ok", "None")
         ELSE Outcome(s, db, "Ok", "None")
    ELSE IF key \in GradeKeys
    THEN Graded(ReviewComponent_submit_review(s, db, Quality(key), fail, t))
    ELSE Outcome(s, db, "Ok", "None")

(***************************************************************************)
(* app.rs: App                                                             *)
(***************************************************************************)
App(s, screen, message) ==
    [session |-> s, current_screen |-> screen,
     show_completion_message |-> message]

\* next_review_card after the pop
Carded(a, s) ==
    IF is_complete(s)
    THEN App(s, "Dashboard", TRUE)
    ELSE App(s, a.current_screen, a.show_completion_message)

App_next_review_card(a) == Carded(a, next_card(a.session))

\* start_review from the loaded queue on
App_start_review(a, queue) ==
    IF queue = <<>>
    THEN App(Loaded(a.session, queue), a.current_screen, TRUE)
    ELSE [App_next_review_card(App(Loaded(a.session, queue), a.current_screen,
                                   FALSE))
            EXCEPT !.current_screen = "Review"]

\* start_learn_new from the loaded queue on
App_start_learn_new(a, queue) ==
    IF queue = <<>>
    THEN App(Loaded(a.session, queue), a.current_screen, FALSE)
    ELSE [App_next_review_card(App(Loaded(a.session, queue), a.current_screen,
                                   FALSE))
            EXCEPT !.current_screen = "Review"]

\* submit_review after current_review_item.take() and process_review
App_submitted(a, db, quality, fail, t, log) ==
    IF fail = "update_log"
    THEN [app |-> a, db |-> db, result |-> "Err"]
    ELSE IF fail = "add_review_history"
    THEN [app |-> a, db |-> WithLog(db, log), result |-> "Err"]
    ELSE [app |-> App_next_review_card([a EXCEPT !.session = Counted(@)]),
          db |-> WithHistory(WithLog(db, log), quality, log, t),
          result |-> "Ok"]

App_submit_review(a, db, quality, fail, t) ==
    IF a.session.current_item = None
    THEN [app |-> a, db |-> db, result |-> "Ok"]
    ELSE App_submitted([a EXCEPT !.session = Taken(@)], db, quality, fail, t,
                       process_review(a.session.current_item, quality, t))

\* main.rs, CurrentScreen::Review: the key by review_state
main_review_key(a, db, key, fail, t) ==
    IF key = "q"
    THEN [app |-> [a EXCEPT !.current_screen = "Dashboard"], db |-> db,
          result |-> "Ok"]
    ELSE IF a.session.state = "Question"
    THEN IF key = " "
         THEN [app |-> [a EXCEPT !.session = show_answer(@)], db |-> db,
               result |-> "Ok"]
         ELSE [app |-> a, db |-> db, result |-> "Ok"]
    ELSE IF key \in GradeKeys
    THEN App_submit_review(a, db, Quality(key), fail, t)
    ELSE [app |-> a, db |-> db, result |-> "Ok"]

(***************************************************************************)
(* The application: one process, the event loop of main.rs.  arch is the   *)
(* front end chosen at start-up (--v2 or not).  A handler that returns Err *)
(* ends the process: result = "Err" is final.  now is the clock in days.   *)
(* ev records the last event handled and the session it met;               *)
(* session_grades counts the grade keys that met a current item since the  *)
(* session was started; updates counts the writes to each word's row of    *)
(* learning_log.                                                           *)
(***************************************************************************)
TheSession ==
    Session(review_queue, current_item, state, total_count, completed_count)

TheDb == Db(learning_log, review_history, updates, checkins)

TheApp == App(TheSession, current_screen, show_completion_message)

SetSession(s) ==
    /\ review_queue' = s.review_queue
    /\ current_item' = s.current_item
    /\ state' = s.state
    /\ total_count' = s.total_count
    /\ completed_count' = s.completed_count

SetDb(db) ==
    /\ learning_log' = db.learning_log
    /\ review_history' = db.review_history
    /\ updates' = db.updates
    /\ checkins' = db.checkins

SetApp(a) ==
    /\ SetSession(a.session)
    /\ current_screen' = a.current_screen
    /\ show_completion_message' = a.show_completion_message

Event(op, key, fail) ==
    [op |-> op, key |-> key, fail |-> fail, state |-> state,
     item |-> current_item, queue |-> review_queue, screen |-> current_screen]

\* what can fail in a start: opening the database, the query of
\* get_due_reviews
StartFailures == {"none", "open", "query"}
\* what can fail in a grade: the two writes
GradeFailures == {"none", "update_log", "add_review_history"}
WriteFailures == GradeFailures \ {"none"}
\* the failures the handlers do not return: the dictionary lookup of one due
\* word in a start; in a grade the check-in of the component front end and
\* the statistics queries of the first front end
LookupFailures == {"get_word_by_id"}
SideFailures == {"update_daily_checkin", "refresh_stats"}

\* the words that are due
DueWords == {w \in Words : learning_log[w] # NoRow /\ IsDue(learning_log[w], now)}
\* the sets of words whose lookup fails in a start
Lost(fail) == IF fail = "get_word_by_id" THEN {{w} : w \in DueWords} ELSE {{}}

\* the key reaches submit_review with a current item
Grades(key) == key \in GradeKeys /\ state = "Answer" /\ current_item # None

\* a write can fail only where one is made; the history is kept to
\* MaxHistory records
Possible(key, fail) ==
    /\ fail # "none" => Grades(key)
    /\ fail = "update_daily_checkin" => arch = "v2"
    /\ fail = "refresh_stats" => arch = "v1"
    /\ Grades(key) => Len(review_history) < MaxHistory

Running == result = "Ok"

\* a day passes
Tick ==
    /\ Running
    /\ now < MaxNow
    /\ now' = now + 1
    /\ UNCHANGED <<schedVars, arch, current_screen, show_completion_message,
                   sessionVars, storeVars, result, ev, session_grades>>

\* DashboardComponent::handle_key and main.rs CurrentScreen::Dashboard, Esc
Dashboard_Esc ==
    /\ Running
    /\ current_screen = "Dashboard"
    /\ show_completion_message
    /\ show_completion_message' = FALSE
    /\ ev' = Event("key", "Esc", "none")
    /\ UNCHANGED <<schedVars, arch, current_screen, sessionVars, storeVars, now,
                   result, session_grades>>

\* AppV2::navigate_to(Screen::Review) once start_review has returned
AppV2_navigated(r) ==
    IF r.started
    THEN /\ SetSession(r.session)
         /\ current_screen' = "Review"
         /\ session_grades' = 0
         /\ UNCHANGED show_completion_message
    ELSE /\ show_completion_message' = TRUE
         /\ current_screen' = "Dashboard"
         /\ UNCHANGED <<sessionVars, session_grades>>

\* 'r' on the dashboard: Action::NavigateTo(Screen::Review)
AppV2_navigate_to_Review(failures) ==
    /\ Running
    /\ arch = "v2"
    /\ current_screen = "Dashboard"
    /\ \E fail \in failures :
         /\ ev' = Event("start", "r", fail)
         /\ IF fail \in {"open", "query"}
            THEN /\ result' = "Err"
                 /\ UNCHANGED <<current_screen, show_completion_message,
                                sessionVars, session_grades>>
            ELSE /\ result' = "Ok"
                 /\ \E lost \in Lost(fail) :
                      \E queue \in get_due_reviews_without(learning_log, now, lost) :
                         AppV2_navigated(ReviewComponent_start_review(NewSession, queue))
    /\ UNCHANGED <<schedVars, arch, storeVars, now>>

\* AppV2::handle_key, Screen::Review, and handle_action, on what
\* review.handle_key left
AppV2_handled(o) ==
    /\ SetSession(o.session)
    /\ SetDb(o.db)
    /\ result' = o.result
    /\ IF o.result = "Err"
       THEN UNCHANGED <<current_screen, show_completion_message>>
       ELSE IF is_complete(o.session) /\ o.action = "None"
       THEN current_screen' = "Dashboard" /\ show_completion_message' = TRUE
       ELSE IF o.action = "NavigateTo(Dashboard)"
       THEN current_screen' = "Dashboard" /\ UNCHANGED show_completion_message
       ELSE UNCHANGED <<current_screen, show_completion_message>>

AppV2_handle_keys_Review(keys, failures) ==
    /\ Running
    /\ arch = "v2"
    /\ current_screen = "Review"
    /\ \E key \in keys, fail \in failures :
         /\ Possible(key, fail)
         /\ ev' = Event("key", key, fail)
         /\ session_grades' = session_grades + (IF Grades(key) THEN 1 ELSE 0)
         /\ AppV2_handled(ReviewComponent_handle_key(TheSession, TheDb, key, fail, now))
    /\ UNCHANGED <<schedVars, arch, now>>

AppV2_handle_key_Review(failures) == AppV2_handle_keys_Review(ReviewKeys, failures)

\* main.rs, CurrentScreen::Dashboard, 'r': app.start_review()?
main_start_review(failures) ==
    /\ Running
    /\ arch = "v1"
    /\ current_screen = "Dashboard"
    /\ \E fail \in failures \ {"open"} :
         /\ ev' = Event("start", "r", fail)
         /\ IF fail = "query"
            THEN /\ result' = "Err"
                 /\ UNCHANGED <<current_screen, show_completion_message,
                                sessionVars, session_grades>>
            ELSE /\ result' = "Ok"
                 /\ session_grades' = 0
                 /\ \E lost \in Lost(fail) :
                      \E queue \in get_due_reviews_without(learning_log, now, lost) :
                         SetApp(App_start_review(TheApp, queue))
    /\ UNCHANGED <<schedVars, arch, storeVars, now>>

main_handled(o) == SetApp(o.app) /\ SetDb(o.db) /\ result' = o.result

\* start_learn_new once get_new_words_to_learn has returned r
main_learn_started(r) ==
    /\ SetApp(App_start_learn_new(TheApp, r.queue))
    /\ learning_log' = r.table
    /\ UNCHANGED <<review_history, updates, checkins>>

\* main.rs, CurrentScreen::Dashboard, 'n': app.start_learn_new()?
main_start_learn_new(failures) ==
    /\ Running
    /\ arch = "v1"
    /\ current_screen = "Dashboard"
    /\ \E fail \in failures \ {"open"} :
         /\ ev' = Event("learn", "n", fail)
         /\ IF fail = "query"
            THEN /\ result' = "Err"
                 /\ UNCHANGED <<current_screen, show_completion_message,
                                sessionVars, session_grades, storeVars>>
            ELSE /\ result' = "Ok"
                 /\ session_grades' = 0
                 /\ \E picked \in stardict_unseen(learning_log,
                                     LearnLimit - Len(NewRows(learning_log))) :
                      main_learn_started(
                          get_new_words_to_learn(learning_log, LearnLimit, now, picked))
    /\ UNCHANGED <<schedVars, arch, now>>

\* main.rs, CurrentScreen::Review
main_keys_Review(keys, failures) ==
    /\ Running
    /\ arch = "v1"
    /\ current_screen = "Review"
    /\ \E key \in keys, fail \in failures :
         /\ Possible(key, fail)
         /\ ev' = Event("key", key, fail)
         /\ session_grades' = session_grades + (IF Grades(key) THEN 1 ELSE 0)
         /\ main_handled(main_review_key(TheApp, TheDb, key, fail, now))
    /\ UNCHANGED <<schedVars, arch, now>>

main_key_Review(failures) == main_keys_Review(ReviewKeys, failures)

\* the scheduler's own variables, at rest while the application runs
SchedIdle ==
    /\ origin = DefaultLog(1, 0)
    /\ card = origin
    /\ before = origin
    /\ grades = <<>>

\* the store holds, for each word, no row or the row init_learning_log
\* inserted; nothing is due before the first 'r'
Init ==
    /\ SchedIdle
    /\ arch \in {"v1", "v2"}
    /\ current_screen = "Dashboard"
    /\ show_completion_message = FALSE
    /\ review_queue = <<>>
    /\ current_item = None
    /\ state = "Question"
    /\ total_count = 0
    /\ completed_count = 0
    /\ learning_log \in [Words -> {NoRow} \cup {DefaultLog(w, 0) : w \in Words}]
    /\ \A w \in Words : learning_log[w] # NoRow => learning_log[w].word_id = w
    /\ review_history = <<>>
    /\ now = 0
    /\ result = "Ok"
    /\ ev = Event("init", "", "none")
    /\ session_grades = 0
    /\ updates = [w \in Words |-> 0]
    /\ checkins = 0

\* the application where the only operations that fail are those whose
\* failure the handlers return
Next ==
    \/ Tick
    \/ Dashboard_Esc
    \/ AppV2_navigate_to_Review(StartFailures)
    \/ AppV2_handle_key_Review(GradeFailures)
    \/ main_start_review(StartFailures)
    \/ main_key_Review(GradeFailures)

Spec == Init /\ [][Next]_vars

\* the application where every database and dictionary operation of a start
\* or a grade can fail
FaultNext ==
    \/ Tick
    \/ Dashboard_Esc
    \/ AppV2_navigate_to_Review(StartFailures \cup LookupFailures)
    \/ AppV2_handle_key_Review(GradeFailures \cup SideFailures)
    \/ main_start_review(StartFailures \cup LookupFailures)
    \/ main_key_Review(GradeFailures \cup SideFailures)

FaultSpec == Init /\ [][FaultNext]_vars

\* the application with the new-words start of the first front end: the
\* sessions 'n' starts are graded as those 'r' starts
LearnNext ==
    \/ Tick
    \/ Dashboard_Esc
    \/ AppV2_navigate_to_Review(StartFailures)
    \/ AppV2_handle_key_Review(GradeFailures)
    \/ main_start_review(StartFailures)
    \/ main_start_learn_new(StartFailures)
    \/ main_key_Review(GradeFailures)

LearnSpec == Init /\ [][LearnNext]_vars

(***************************************************************************)
(* The application on a store that earlier runs have written.  Each word   *)
(* has no row, the row init_learning_log inserted, or the row a run of     *)
(* reviews left: process_review applied to the inserted row once per grade *)
(* of the run, each review made on the day the row fell due.  The last     *)
(* review of a row was made interval days before its next_review, which is *)
(* day 0 (due now), or a day up to MaxNow + 1.  The user starts sessions,  *)
(* reveals answers and abandons sessions; no grade is given, so            *)
(* review_history, which no operation here reads, stays as it starts.      *)
(***************************************************************************)
RECURSIVE Replayed(_, _)
Replayed(log, run) ==
    IF run = <<>> THEN log
    ELSE Replayed(process_review(log, Head(run), log.next_review), Tail(run))

\* one lapse; a streak of passes with grade 4 through the repetitions
\* 0..MaxRep
AgedRuns == {<<2>>, [k \in 1..(MaxRep + 1) |-> 4]}

AgedRows(w) ==
    {DefaultLog(w, 0)} \cup
    {[Replayed(DefaultLog(w, 0), run) EXCEPT !.next_review = d] :
        run \in AgedRuns, d \in 0..(MaxNow + 1)}

AgedInit ==
    /\ SchedIdle
    /\ arch \in {"v1", "v2"}
    /\ current_screen = "Dashboard"
    /\ show_completion_message = FALSE
    /\ review_queue = <<>>
    /\ current_item = None
    /\ state = "Question"
    /\ total_count = 0
    /\ completed_count = 0
    /\ learning_log \in [Words -> {NoRow} \cup UNION {AgedRows(w) : w \in Words}]
    /\ \A w \in Words : learning_log[w] # NoRow => learning_log[w].word_id = w
    /\ review_history = <<>>
    /\ now = 0
    /\ result = "Ok"
    /\ ev = Event("init", "", "none")
    /\ session_grades = 0
    /\ updates = [w \in Words |-> 0]
    /\ checkins = 0

AgedNext ==
    \/ Tick
    \/ Dashboard_Esc
    \/ AppV2_navigate_to_Review(StartFailures)
    \/ AppV2_handle_keys_Review(ReviewKeys \ GradeKeys, {"none"})
    \/ main_start_review(StartFailures)
    \/ main_start_learn_new(StartFailures)
    \/ main_keys_Review(ReviewKeys \ GradeKeys, {"none"})

AgedSpec == AgedInit /\ [][AgedNext]_vars

(***************************************************************************)
(* The user who works the due list off while the clock stands still: on    *)
(* the store earlier runs have written they start due sessions with 'r',   *)
(* reveal each answer and grade each item; no day passes, no session is    *)
(* abandoned and no operation fails.  The event loop blocks on the next    *)
(* key and handles it at once, so a key the user keeps pressing is         *)
(* handled: the user does start a session when on the dashboard, reveal    *)
(* the answer when a question is shown and grade when the answer is shown. *)
(***************************************************************************)
DrillKeys == {" "} \cup GradeKeys

DrillNext ==
    \/ AppV2_navigate_to_Review({"none"})
    \/ AppV2_handle_keys_Review(DrillKeys, {"none"})
    \/ main_start_review({"none"})
    \/ main_keys_Review(DrillKeys, {"none"})

\* a grade key handled now reaches submit_review and its writes: exactly
\* when this holds the handlers below, given a key of GradeKeys, take a
\* step that changes the state
AwaitsGrade ==
    /\ Running /\ current_screen = "Review"
    /\ state = "Answer" /\ current_item # None
    /\ Len(review_history) < MaxHistory

\* the start and the reveal are weakly fair.  So is the grade: a grade
\* leaves the Answer state, so weak fairness of the grade (AwaitsGrade does
\* not hold for ever without a grade step) is that AwaitsGrade is false
\* again and again
DrillFair ==
    /\ WF_vars(AppV2_navigate_to_Review({"none"}))
    /\ WF_vars(AppV2_handle_keys_Review({" "}, {"none"}))
    /\ WF_vars(main_start_review({"none"}))
    /\ WF_vars(main_keys_Review({" "}, {"none"}))
    /\ []<>(~AwaitsGrade)

DrillSpec == AgedInit /\ [][DrillNext]_vars /\ DrillFair

(***************************************************************************)
(* The scheduler on its own: process_review applied to one LearningLog.    *)
(* The log starts as the row init_learning_log inserts, or as any log with *)
(* repetition in 0..MaxRep and an e_factor >= 1.3 that is the f64 nearest   *)
(* to a hundredth in 1.30..MaxEf/100 or one of its two neighbours.  A log   *)
(* that starts as the inserted row takes up to MaxGrades reviews, any      *)
(* other log one.                                                          *)
(***************************************************************************)
\* the application at rest
AppIdle ==
    /\ arch = "v2"
    /\ current_screen = "Dashboard"
    /\ show_completion_message = FALSE
    /\ review_queue = <<>>
    /\ current_item = None
    /\ state = "Question"
    /\ total_count = 0
    /\ completed_count = 0
    /\ learning_log = [w \in Words |-> NoRow]
    /\ review_history = <<>>
    /\ now = 0
    /\ result = "Ok"
    /\ ev = [op |-> "init", key |-> "", fail |-> "none", state |-> "Question",
             item |-> None, queue |-> <<>>, screen |-> "Dashboard"]
    /\ session_grades = 0
    /\ updates = [w \in Words |-> 0]
    /\ checkins = 0

Neighbours(f) ==
    {f,
     F64(f.h, f.n + Ulp(Binade(f.h, f.n))),
     F64(f.h, f.n - Ulp(Binade(f.h, f.n - 1)))}

EfInputs ==
    {f \in UNION {Neighbours(Lit(h)) : h \in 130..MaxEf} : ~LessF(f, Lit(130))}

SchedInputs ==
    {DefaultLog(1, 0)} \cup
    {LearningLog(1, n, is[1], ef, 0, is[2]) :
        n \in 0..MaxRep, ef \in EfInputs,
        is \in {<<0, New>>, <<1, Learning>>, <<22, Mastered>>}}

SchedInit ==
    /\ origin \in SchedInputs
    /\ card = origin
    /\ before = origin
    /\ grades = <<>>
    /\ AppIdle

Review(quality) ==
    /\ Len(grades) < (IF origin = DefaultLog(1, 0) THEN MaxGrades ELSE 1)
    /\ before' = card
    /\ card' = process_review(card, quality, 0)
    /\ grades' = Append(grades, quality)
    /\ origin' = origin
    /\ UNCHANGED appVars

SchedNext == \E quality \in 0..MaxQuality : Review(quality)

SchedSpec == SchedInit /\ [][SchedNext]_vars

(***************************************************************************)
(* The scheduler on one word, from the row init_learning_log inserts, over *)
(* grade sequences of any length on the scale 1..4.  grades holds the      *)
(* passes (3 or 4) given since the last lapse (1 or 2), or since the       *)
(* start: the consecutive passes at the end of the sequence.  A streak is  *)
(* followed up to MaxRep + 1 passes; a lapse ends it at any point.         *)
(***************************************************************************)
StreakInit ==
    /\ origin = DefaultLog(1, 0)
    /\ card = origin
    /\ before = origin
    /\ grades = <<>>
    /\ AppIdle

Pass(quality) ==
    /\ Len(grades) <= MaxRep
    /\ before' = card
    /\ card' = process_review(card, quality, 0)
    /\ grades' = Append(grades, quality)
    /\ origin' = origin
    /\ UNCHANGED appVars

Lapse(quality) ==
    /\ before' = card
    /\ card' = process_review(card, quality, 0)
    /\ grades' = <<>>
    /\ origin' = origin
    /\ UNCHANGED appVars

StreakNext ==
    \/ \E quality \in {3, 4} : Pass(quality)
    \/ \E quality \in {1, 2} : Lapse(quality)

StreakSpec == StreakInit /\ [][StreakNext]_vars

(***************************************************************************)
(* Properties of the scheduler (SchedSpec)                                 *)
(***************************************************************************)
LastGrade == grades[Len(grades)]
Reviewed == Len(grades) > 0
GradesOnScale == \A k \in 1..Len(grades) : grades[k] \in 1..4
FromDefault == origin = DefaultLog(1, 0)

\* i is the f64 p rounded to an integer, half away from zero: p is within a
\* half of i, the half above i excluded and the half below included
IsRoundOf(i, p) ==
    /\ p.h > 100 * i - 50 \/ (p.h = 100 * i - 50 /\ p.n >= 0)
    /\ p.h < 100 * i + 50 \/ (p.h = 100 * i + 50 /\ p.n < 0)

\* f is at least the real number 1.3
AtLeastFloor(f) == f.h > 130 \/ (f.h = 130 /\ f.n >= 0)

\* C2: after any sequence of grades in 1..4, from the default state or from
\* any state with ease_factor >= 1.3, the ease factor is at least 1.3
C2_EaseFactorFloor == GradesOnScale => AtLeastFloor(card.e_factor)

\* C2 witness: three lapses from the default state brought the ease factor
\* down to the floor
C2_Witness ==
    /\ FromDefault /\ GradesOnScale /\ Len(grades) >= 3
    /\ LastGrade < 3
    /\ card.e_factor = Lit(130)
    /\ before.e_factor.h - (IF LastGrade = 1 THEN 54 ELSE 32) < 130

\* C6: a lapse (quality < 3) yields repetition 0 and interval 1 whatever the
\* prior state
C6_LapseResets ==
    (Reviewed /\ LastGrade < 3) => (card.repetition = 0 /\ card.interval = 1)

\* C6 witness: a lapse on a mastered log with a long streak
C6_Witness ==
    /\ Reviewed /\ LastGrade \in 1..2
    /\ before.repetition = MaxRep /\ before.interval = 22
    /\ card.repetition = 0 /\ card.interval = 1

\* C7: a first success (repetition 0, quality 3 or 4) yields interval 1 and
\* repetition 1, for every ease factor
C7_FirstSuccess ==
    (Reviewed /\ LastGrade \in 3..4 /\ before.repetition = 0)
        => (card.interval = 1 /\ card.repetition = 1)

\* C7 witness: a first success at an ease factor other than the default
C7_Witness ==
    /\ Reviewed /\ LastGrade \in 3..4 /\ before.repetition = 0
    /\ before.e_factor.h = 130 /\ card.interval = 1

\* C8: a second consecutive success (repetition 1, passing quality) yields
\* interval 6 and repetition 2, for every ease factor
C8_SecondSuccess ==
    (Reviewed /\ LastGrade \in 3..4 /\ before.repetition = 1)
        => (card.interval = 6 /\ card.repetition = 2)

\* C8 witness: the second of two consecutive successes from the default state
C8_Witness ==
    /\ FromDefault /\ Len(grades) = 2 /\ grades[1] \in 3..4 /\ grades[2] \in 3..4
    /\ before.repetition = 1 /\ card.interval = 6

DeltaHundredths(q) == 10 - (5 - q) * (8 + (5 - q) * 2)

\* the rounding error allowed to an f64 result, in Units: 2^17 Units are
\* about 1.1e-15
Slack == 2^17

Within(n, m, slack) == n - m <= slack /\ m - n <= slack

\* C20: every grade q in 1..4, a lapse included, sets the ease factor to
\* max(1.3, ease_factor + 0.1 - (5 - q) * (0.08 + (5 - q) * 0.02)), up to
\* the rounding of f64: grade 1 lowers it by 0.54 and grade 2 by 0.32, down
\* to the floor 1.3, and a lapse also sets the repetition to 0
C20_EaseFactorUpdate ==
    (Reviewed /\ LastGrade \in 1..4) =>
        /\ DeltaHundredths(1) = -54 /\ DeltaHundredths(2) = -32
        /\ IF before.e_factor.h + DeltaHundredths(LastGrade) > 130
           THEN /\ card.e_factor.h
                     = before.e_factor.h + DeltaHundredths(LastGrade)
                /\ Within(card.e_factor.n, before.e_factor.n, Slack)
           ELSE /\ card.e_factor.h = 130
                /\ Within(card.e_factor.n, 0, Slack)
        /\ LastGrade < 3 => card.repetition = 0

\* C20 witness: a lapse with grade 1 at ease factor 2.5 and repetition 2 or
\* more lowered the ease factor to 1.96 and reset the repetition
C20_Witness ==
    /\ Reviewed /\ LastGrade = 1
    /\ before.e_factor = Lit(250) /\ before.repetition >= 2
    /\ card.e_factor.h = 196
    /\ card.repetition = 0

\* the ease factor is far enough above the floor for no grade to reach it
ClearOfFloor(f) == f.h >= 200

\* C21 as stated: on the scale 1..4 the delta of the ease factor is never
\* zero, grade 4 included; the delta is zero at quality 5
C21_AsStated ==
    Reviewed =>
        /\ (LastGrade \in 1..4 /\ ClearOfFloor(before.e_factor))
               => card.e_factor # before.e_factor
        /\ LastGrade = 5 => card.e_factor = before.e_factor

\* C21 amended: the delta of the ease factor is zero at quality 4: grade 4
\* (Easy) leaves the ease factor exactly as it was, the grades 1..3 lower it
\* (down to the floor 1.3), and no grade of the scale 1..4 raises it; quality
\* 5, which the scale does not have, is where the delta is +0.1
C21_ZeroDeltaAtFour ==
    Reviewed =>
        /\ DeltaHundredths(4) = 0 /\ DeltaHundredths(5) = 10
        /\ LastGrade = 4 => card.e_factor = before.e_factor
        /\ LastGrade \in 1..3 =>
               \/ LessF(card.e_factor, before.e_factor)
               \/ card.e_factor = Lit(130)
        /\ LastGrade \in 1..4 => ~LessF(before.e_factor, card.e_factor)
        /\ LastGrade = 5 =>
               /\ card.e_factor.h = before.e_factor.h + 10
               /\ Within(card.e_factor.n, before.e_factor.n, Slack)

\* C21 witness: grade 4 at repetition 2 or more and ease factor 2.5 left the
\* ease factor at 2.5
C21_Witness ==
    /\ Reviewed /\ LastGrade = 4
    /\ before.repetition >= 2 /\ before.e_factor = Lit(250)
    /\ card.e_factor = Lit(250)
    /\ card.repetition = before.repetition + 1


\* C26: a passing grade that produces an interval of 21 days sets the status
\* to Mastered
C26_MasteredAtTwentyOne ==
    (Reviewed /\ LastGrade \in 3..4 /\ card.interval = 21)
        => card.status = Mastered

\* C27: along a run of consecutive passing grades (3 or 4) from the default
\* state each new interval is at least the one before it
C27_IntervalsNeverShrink ==
    (FromDefault /\ Len(grades) >= 2
       /\ LastGrade \in 3..4 /\ grades[Len(grades) - 1] \in 3..4)
        => card.interval >= before.interval

(***************************************************************************)
(* Properties of the review session (Spec)                                 *)
(***************************************************************************)
HistoryCount(w) ==
    Cardinality({k \in DOMAIN review_history : review_history[k].word_id = w})

GradeKeyHandled == ev.op = "key" /\ ev.key \in GradeKeys
GradeFailed == GradeKeyHandled /\ ev.fail \in WriteFailures

\* C1: in a session started with N >= 1 items in which no write has failed,
\* the grades given so far are at most N, each one counted as completed,
\* and the session is complete (no current item) exactly when N grades have
\* been given: not complete after each of the first N-1, complete after the
\* N-th.  Until then the queue holds the items still to come.
C1_CompleteAfterNGrades ==
    (total_count >= 1 /\ result = "Ok") =>
        /\ session_grades <= total_count
        /\ completed_count = session_grades
        /\ is_complete(TheSession) <=> (session_grades = total_count)
        /\ ~is_complete(TheSession) =>
               Len(review_queue) = total_count - session_grades - 1

\* a session of two items, both graded, complete
C1_Witness ==
    /\ total_count = 2
    /\ session_grades = 2
    /\ result = "Ok"
    /\ is_complete(TheSession)
    /\ Len(review_history) >= 2

\* C3: a grade key handled while the session shows the question, or has no
\* current item, ends in an error.
C3_GradeOutsideAnswerFails ==
    (GradeKeyHandled /\ (ev.state = "Question" \/ ev.item = None)) =>
        result = "Err"

\* C4: in every reachable state, for every word, the number of history
\* records of the word equals the number of updates of its learning_log row.
C4_HistoryMatchesUpdates == \A w \in Words : HistoryCount(w) = updates[w]

\* C5: when a write fails during a grade, the handler returns Err, the item
\* that was being graded is no longer the current item (there is none), and
\* the queue is as it was before the grade, without that item; this is so
\* whichever of the two writes failed.
C5_FailedGradeLosesItem ==
    GradeFailed =>
        /\ result = "Err"
        /\ ev.item # None
        /\ current_item = None
        /\ review_queue = ev.queue
        /\ \A k \in DOMAIN review_queue :
               review_queue[k].word_id # ev.item.word_id

\* the history write fails after the log write succeeded, with items still
\* in the queue
C5_Witness ==
    /\ GradeFailed
    /\ ev.fail = "add_review_history"
    /\ result = "Err"
    /\ review_queue # <<>>
    /\ learning_log[ev.item.word_id] # ev.item

\* the step handles 'r' on the dashboard with no failure while nothing is due
EmptyStartStep ==
    /\ ev'.op = "start" /\ ev'.fail = "none"
    /\ now' = now
    /\ get_due_reviews(learning_log, now) = {<<>>}

\* C12: a start that finds nothing due returns false and leaves the session
\* idle: the handler returns Ok, the application stays on the Dashboard, the
\* start sets no current item, and the session state and the store are as
\* they were; in the component front end the session object is untouched.
C12_EmptyStartStaysIdle ==
    [][EmptyStartStep =>
          /\ result' = "Ok"
          /\ current_screen' = "Dashboard"
          /\ ~ReviewComponent_start_review(NewSession, <<>>).started
          /\ ReviewComponent_start_review(NewSession, <<>>).session.current_item = None
          /\ current_item' = current_item
          /\ state' = state
          /\ review_queue' = <<>> \/ arch = "v2"
          /\ arch = "v2" => UNCHANGED sessionVars
          /\ UNCHANGED storeVars]_vars

\* a start found nothing due after an earlier session had graded a word
C12_Witness ==
    /\ ev.op = "start" /\ ev.fail = "none"
    /\ current_screen = "Dashboard"
    /\ show_completion_message
    /\ review_history # <<>>
    /\ get_due_reviews(learning_log, now) = {<<>>}

\* the last event was a start that entered the Review screen
Started == ev.op = "start" /\ ev.fail = "none" /\ current_screen = "Review"

\* start_review on the session object as it is now, with a queue of due rows
\* that is not empty, returns true and serves the last row of the queue in
\* state Question
ServesQuestion(r, a, item) ==
    /\ r.started
    /\ r.session.state = "Question"
    /\ r.session.current_item = item
    /\ a.session.state = "Question"
    /\ a.session.current_item = item
    /\ a.current_screen = "Review"

StartServesQuestion(queue) ==
    ServesQuestion(ReviewComponent_start_review(TheSession, queue),
                   App_start_review(TheApp, queue), queue[Len(queue)])

\* C13: after a start that found a queue that is not empty the session
\* serves one current item in state Question, the other total_count - 1
\* items wait in the queue and the current item is not among them; this is
\* so in whatever state (Answer included) the session object was left by an
\* earlier session when 'r' is pressed on the Dashboard
C13_StartServesQuestion ==
    /\ Started =>
          /\ state = "Question"
          /\ current_item # None
          /\ total_count >= 1
          /\ Len(review_queue) = total_count - 1
          /\ completed_count = 0
          /\ \A k \in DOMAIN review_queue :
                 review_queue[k].word_id # current_item.word_id
    /\ current_screen = "Dashboard" =>
          \A queue \in get_due_reviews(learning_log, now) :
              queue # <<>> => StartServesQuestion(queue)

\* a session is started on the session object of the first front end, which
\* an earlier session left in state Answer with its item
C13_Witness ==
    /\ Started
    /\ arch = "v1"
    /\ ev.state = "Answer" /\ ev.item # None
    /\ state = "Question" /\ current_item # None

\* the step handles ' ' or Enter on the Review screen in state Question
RevealStep ==
    /\ ev'.op = "key" /\ ev'.key = " "
    /\ now' = now
    /\ current_screen = "Review" /\ state = "Question"

\* C14: revealing the answer moves the session from Question to Answer and
\* changes nothing else: the current item, the queue, the counters, the
\* screen and every row of learning_log and review_history are as before
C14_RevealChangesStateOnly ==
    [][RevealStep =>
          /\ state' = "Answer"
          /\ result' = "Ok"
          /\ UNCHANGED <<current_item, review_queue, total_count, completed_count>>
          /\ UNCHANGED <<current_screen, show_completion_message>>
          /\ UNCHANGED storeVars]_vars

\* the answer was revealed with items waiting in the queue and records in
\* the store
C14_Witness ==
    /\ ev.op = "key" /\ ev.key = " " /\ ev.state = "Question"
    /\ state = "Answer"
    /\ current_item # None
    /\ review_queue # <<>>
    /\ review_history # <<>>

\* the step handles a key on the Review screen
ReviewKeyStep == ev'.op = "key" /\ now' = now /\ current_screen = "Review"

\* the words of the queue are all different, and none is the current item's
QueueDistinct(queue, item) ==
    /\ \A j, k \in DOMAIN queue : j # k => queue[j].word_id # queue[k].word_id
    /\ item # None => \A k \in DOMAIN queue : queue[k].word_id # item.word_id

AbandonStep == ReviewKeyStep /\ ev'.key = "q"

\* C16: abandoning a session, in state Question or Answer, writes nothing:
\* every row of learning_log (the current item's and the queued items'
\* among them) and the history are as before the abandon, so what earlier
\* grades of the session wrote stays written; the handler returns Ok and the
\* application is back on the Dashboard
C16_AbandonWritesNothing ==
    [][AbandonStep =>
          /\ UNCHANGED storeVars
          /\ result' = "Ok"
          /\ current_screen' = "Dashboard"]_vars

\* a session of two words was abandoned in state Answer after the first word
\* was graded: the first word's row and history record are stored, the
\* second word's row is the one the session was started with
C16_Witness ==
    /\ ev.op = "key" /\ ev.key = "q" /\ ev.state = "Answer"
    /\ ev.item # None
    /\ current_screen = "Dashboard"
    /\ total_count = 2 /\ session_grades = 1
    /\ Len(review_history) >= 1
    /\ learning_log[ev.item.word_id] = ev.item
    /\ \E w \in Words : updates[w] >= 1 /\ w # ev.item.word_id

\* the rows of learning_log
Rows == {learning_log[w] : w \in {v \in Words : learning_log[v] # NoRow}}

\* C22: in every reachable state of the store, every row of learning_log
\* with repetition > 0, and every row that a grade has written at least once,
\* has interval >= 1; and a grade of 1..4 on a stored row produces an
\* interval >= 1
C22_IntervalAtLeastOne ==
    /\ \A w \in Words :
          (learning_log[w] # NoRow
             /\ (learning_log[w].repetition > 0 \/ updates[w] > 0))
          => learning_log[w].interval >= 1
    /\ \A row \in Rows : \A q \in 1..4 :
          NextInterval(row.repetition, row.e_factor, q) >= 1

\* C22 witness: one word was graded with a pass and has repetition 1 and
\* interval 1, another with a lapse and has repetition 0 and interval 1
C22_Witness ==
    \E w, v \in Words :
        /\ learning_log[w] # NoRow /\ learning_log[v] # NoRow
        /\ updates[w] = 1 /\ updates[v] = 1
        /\ learning_log[w].repetition = 1 /\ learning_log[w].interval = 1
        /\ learning_log[v].repetition = 0 /\ learning_log[v].interval = 1

\* the last event was a grade whose two writes succeeded
GradeWritten ==
    /\ GradeKeyHandled /\ ev.state = "Answer" /\ ev.item # None
    /\ ev.fail \notin WriteFailures
    /\ result = "Ok"

\* the newest record of review_history
Newest == review_history[Len(review_history)]

\* C23: immediately after a successful grade the newest history record is
\* the graded word's, carries the grade given, and its repetition, interval
\* and e_factor are those of the word's stored row of learning_log
C23_HistorySnapshot ==
    GradeWritten =>
        /\ review_history # <<>>
        /\ Newest.word_id = ev.item.word_id
        /\ Newest.quality = Quality(ev.key)
        /\ learning_log[ev.item.word_id] # NoRow
        /\ Newest.repetition = learning_log[ev.item.word_id].repetition
        /\ Newest.interval = learning_log[ev.item.word_id].interval
        /\ Newest.e_factor = learning_log[ev.item.word_id].e_factor

\* C23 witness: a word was graded a second time; its two records differ and
\* the newer one is the stored row's snapshot
C23_Witness ==
    /\ GradeWritten
    /\ Len(review_history) = 2
    /\ review_history[1].word_id = ev.item.word_id
    /\ review_history[2].word_id = ev.item.word_id
    /\ review_history[1].interval # review_history[2].interval
    /\ review_history[2].repetition = 2
    /\ learning_log[ev.item.word_id].repetition = 2
    /\ learning_log[ev.item.word_id].interval = 6

\* C24: review_history is append-only: every step of the application
\* (starting a session, a key of a session, a failed write, the passing of a
\* day) leaves the records it held in place and unchanged, and adds at most
\* one record, at the end
C24_HistoryAppendOnly ==
    [][/\ Len(review_history') \in {Len(review_history), Len(review_history) + 1}
       /\ SubSeq(review_history', 1, Len(review_history)) = review_history]_vars

\* C24 witness: a word has two records, of day 0 and of day 1
C24_Witness ==
    /\ Len(review_history) = 2
    /\ review_history[1].word_id = review_history[2].word_id
    /\ review_history[1].reviewed_at = 0
    /\ review_history[2].reviewed_at = 1

\* the rows the session holds: the current item and the queue
Items ==
    {review_queue[k] : k \in DOMAIN review_queue}
        \cup (IF current_item = None THEN {} ELSE {current_item})

\* C25 (AgedSpec): the session a due-review start has built holds no item
\* whose status is Mastered
C25_MasteredNeverQueued ==
    Started => \A row \in Items : row.status # Mastered

\* the step handles 'n' on the dashboard with no failure
LearnStep == ev'.op = "learn" /\ ev'.fail = "none" /\ now' = now

\* C28 (AgedSpec): init_learning_log creates a row only for a word that has
\* none, with repetition 0, interval 0, e_factor 2.5, next_review now and
\* status New; called for a word that has a row, graded or not, created by
\* the call before or long ago, it leaves learning_log as it is; it
\* touches no other word's row.  Starting a new-words session, which calls
\* it, leaves every row that existed unchanged and adds only such rows.
C28_InitLearningLogIdempotent ==
    /\ [](\A w \in Words :
            /\ learning_log[w] = NoRow =>
                  /\ init_learning_log(learning_log, w, now)[w]
                        = LearningLog(w, 0, 0, Lit(250), now, New)
                  /\ init_learning_log(init_learning_log(learning_log, w, now),
                                       w, now + 1)
                        = init_learning_log(learning_log, w, now)
            /\ learning_log[w] # NoRow =>
                  init_learning_log(learning_log, w, now) = learning_log
            /\ \A v \in Words \ {w} :
                  init_learning_log(learning_log, w, now)[v] = learning_log[v])
    /\ [][LearnStep =>
            \A w \in Words :
                IF learning_log[w] # NoRow
                THEN learning_log'[w] = learning_log[w]
                ELSE learning_log'[w] \in {NoRow, LearningLog(w, 0, 0, Lit(250), now, New)}]_vars

\* C28 witness: a new-words start on day 1 created the row of a word next
\* to the row of a word that is Mastered, which is as it was
C28_Witness ==
    /\ ev.op = "learn" /\ ev.fail = "none"
    /\ now = 1
    /\ \E w, v \in Words :
          /\ learning_log[w] = LearningLog(w, 0, 0, Lit(250), 1, New)
          /\ learning_log[v] # NoRow
          /\ learning_log[v].status = Mastered
          /\ learning_log[v].repetition = MaxRep + 1

\* the instants of the days 0..MaxNow + 1 whose fraction of a second is
\* zero, or takes 3, 6 or 9 digits
Instants ==
    (0..(MaxNow + 1)) \X {0, 500000000, 499999000, 500001000, 500000001, 999999999}

\* the step handles 'r' on the dashboard with no failure
DueStartStep == ev'.op = "start" /\ ev'.fail = "none" /\ now' = now

LearnStarted == ev.op = "learn" /\ ev.fail = "none" /\ current_screen = "Review"

\* C30 (AgedSpec): the queue a new-words start with limit LearnLimit has
\* built holds at most LearnLimit items and no word twice, whether the New
\* rows existed or were created by the call
C30_NewQueueBounded ==
    LearnStarted =>
        /\ total_count <= LearnLimit
        /\ Cardinality({row.word_id : row \in Items}) = total_count

\* C17: whenever is_complete() is true (there is no current item) the queue
\* is empty, also after a grade whose write failed
C17_CompleteMeansQueueEmpty == is_complete(TheSession) => review_queue = <<>>

\* C18: a review with a quality outside 1..4 (0, or 5 and more) produces no
\* new memory state: the log is as it was before
C18_QualityOutsideRangeRejected ==
    (Reviewed /\ LastGrade \notin 1..4) => card = before

\* C19 (FaultSpec): every failure of a database or dictionary operation made
\* while starting a session or grading an item ends the handler in an error
C19_FailuresPropagate ==
    (ev.op \in {"start", "key"} /\ ev.fail # "none") => result = "Err"

\* C31 (LearnSpec): an item about to be graded (the current item, with its
\* answer shown) carries the repetition and e_factor that learning_log
\* stores for its word at that moment
C31_GradesStoredState ==
    (Running /\ current_screen = "Review" /\ state = "Answer"
        /\ current_item # None) =>
        /\ learning_log[current_item.word_id] # NoRow
        /\ learning_log[current_item.word_id].repetition = current_item.repetition
        /\ learning_log[current_item.word_id].e_factor = current_item.e_factor

\* the step is a start with 'r' that no failure stopped
DueStarts == ev'.op = "start" /\ ev'.fail = "none" /\ now' = now

\* the list is in the order of the store, next_review ascending, and item,
\* if there is one, comes after it
Ascending(queue, item) ==
    /\ \A j, k \in DOMAIN queue :
          j < k => queue[j].next_review <= queue[k].next_review
    /\ item # None =>
          \A k \in DOMAIN queue : queue[k].next_review <= item.next_review

\* C32: the items are served from the end of the list the store returned.
\* A start serves the last row of get_due_reviews and queues the others in
\* their order; a grade that is written serves the last of the queue and
\* leaves the others in their order.  The list is ordered by next_review
\* ascending, so the item served has the latest next_review of those still
\* to serve, and the most overdue is served last
C32_ServedFromTheEnd ==
    /\ [](Ascending(review_queue, IF current_screen = "Review"
                                   THEN current_item ELSE None))
    /\ [][/\ (DueStarts /\ current_screen' = "Review") =>
               \E list \in get_due_reviews(learning_log, now) :
                  /\ current_item' = list[Len(list)]
                  /\ review_queue' = SubSeq(list, 1, Len(list) - 1)
          /\ (ReviewKeyStep /\ Grades(ev'.key) /\ ev'.fail = "none") =>
                  /\ current_item' = Pop(review_queue)
                  /\ review_queue' = Rest(review_queue)]_vars

\* a session started on day 1 with a row due that day and a row overdue
\* since day 0: the row due on day 1 was served and graded first, and the
\* overdue row is served now
C32_Witness ==
    /\ GradeWritten
    /\ current_screen = "Review"
    /\ now = 1
    /\ ev.item.next_review = 1
    /\ ev.queue # <<>>
    /\ current_item = ev.queue[Len(ev.queue)]
    /\ current_item.next_review = 0

\* the items of the session still to grade: the one in service and those
\* waiting
Remaining == (IF current_item = None THEN 0 ELSE 1) + Len(review_queue)

\* C33: in a started session that no failed write has ended, the items
\* graded, the item in service and the items waiting add up to total_count;
\* so completed_count <= total_count and total_count - completed_count,
\* which the view displays, is the number of items still to grade, never
\* below 0
C33_CountsAddUp ==
    (total_count >= 1 /\ result = "Ok") =>
        /\ completed_count + Remaining = total_count
        /\ completed_count <= total_count
        /\ total_count - completed_count = Remaining

\* one of two items graded, the other in service
C33_Witness ==
    /\ GradeWritten
    /\ current_screen = "Review"
    /\ total_count = 2
    /\ completed_count = 1
    /\ current_item # None
    /\ review_queue = <<>>

\* the step is a grade of the item in service that meets the failure fail
GradeStepFailing(fail) == ReviewKeyStep /\ Grades(ev'.key) /\ ev'.fail = fail

\* C34: a grade whose update_log fails appends no record to
\* review_history, leaves completed_count and the check-ins as they were
\* and writes nothing; the handler returns the error.  update_log comes
\* before add_review_history: when it is add_review_history that fails the
\* row has been written and the history has not, and no word has more
\* records in review_history than writes of its row
C34_FailedUpdateWritesNothing ==
    /\ [](\A w \in Words : HistoryCount(w) <= updates[w])
    /\ [][/\ GradeStepFailing("update_log") =>
               /\ UNCHANGED <<learning_log, review_history, updates, checkins,
                              completed_count>>
               /\ result' = "Err"
          /\ GradeStepFailing("add_review_history") =>
               /\ learning_log'[current_item.word_id] =
                      process_review(current_item, Quality(ev'.key), now)
               /\ updates'[current_item.word_id] =
                      updates[current_item.word_id] + 1
               /\ UNCHANGED <<review_history, checkins, completed_count>>
               /\ result' = "Err"]_vars

\* the second grade of a session of the component front end failed in
\* update_log: one record, one item counted and one check-in, those of the
\* first grade, and the row of the item as it was loaded
C34_Witness ==
    /\ GradeFailed
    /\ ev.fail = "update_log"
    /\ arch = "v2"
    /\ Len(review_history) = 1
    /\ completed_count = 1
    /\ checkins = 1
    /\ learning_log[ev.item.word_id] = ev.item

\* C35 (SchedSpec): a review with a grade in 1..4 never raises the ease
\* factor: it is at most what it was before the review; so over any
\* sequence of such grades a word that starts at 2.5 stays at or below 2.5,
\* and an ease factor at the floor 1.3 is still 1.3 after the review
C35_EaseNeverIncreases ==
    (Reviewed /\ GradesOnScale) =>
        /\ ~LessF(before.e_factor, card.e_factor)
        /\ FromDefault => ~LessF(Lit(250), card.e_factor)
        /\ before.e_factor = Lit(130) => card.e_factor = Lit(130)

\* a word that started at 2.5 has reached the floor by low grades and was
\* graded again, low: the ease factor is still 1.3
C35_Witness ==
    /\ FromDefault /\ GradesOnScale
    /\ Len(grades) >= 4
    /\ LastGrade = 1
    /\ before.e_factor = Lit(130)
    /\ card.e_factor = Lit(130)

\* the step wrote the row of the word of the item in service and no other,
\* and appended the record of a review of that word with quality q, or, the
\* append failing, left the history and wrote the row process_review gives
\* with q
WroteReview(q) ==
    /\ \A w \in Words \ {current_item.word_id} :
          learning_log'[w] = learning_log[w]
    /\ IF review_history' = review_history
       THEN learning_log'[current_item.word_id] =
                process_review(current_item, q, now)
       ELSE /\ Len(review_history') = Len(review_history) + 1
            /\ review_history'[Len(review_history')].quality = q
            /\ review_history'[Len(review_history')].word_id =
                   current_item.word_id

\* C36: the qualities the session passes on are those of the scale 1..4.
\* Every record of review_history has a quality in 1..4; a key handled on
\* the Review screen changes the store only if it is one of '1'..'4' in the
\* Answer state, and then the quality q of the key is in 1..4 and the
\* review written is one with q; no other key calls process_review or
\* add_review_history
C36_QualityOnScale ==
    /\ [](\A k \in DOMAIN review_history : review_history[k].quality \in 1..4)
    /\ [][ReviewKeyStep =>
            \/ UNCHANGED <<learning_log, review_history>>
            \/ /\ ev'.key \in {"1", "2", "3", "4"}
               /\ state = "Answer" /\ current_item # None
               /\ Quality(ev'.key) \in 1..4
               /\ WroteReview(Quality(ev'.key))]_vars

\* after a grade 4 was recorded, a key that is none of the handled ones was
\* pressed with the answer of the next item shown: the item is still in
\* service and the history has the one record
C36_Witness ==
    /\ ev.op = "key" /\ ev.key = "x" /\ ev.state = "Answer"
    /\ ev.item # None /\ current_item = ev.item
    /\ Len(review_history) = 1
    /\ review_history[1].quality = 4

\* the last event was a start with 'r' that found nothing due and stayed on
\* the dashboard
EmptyStart ==
    /\ ev.op = "start" /\ ev.fail = "none"
    /\ current_screen = "Dashboard"
    /\ DueWords = {}

\* C37 (DrillSpec): with the clock standing still, a grade that is written
\* sets the word's next_review to now + interval with interval >= 1, so the
\* word is no longer due; no word is graded twice; and the user who keeps
\* starting due sessions and grades every item served reaches a start that
\* finds nothing due and returns false
C37_DueSetDrains ==
    /\ <>EmptyStart
    /\ [](\A w \in Words : updates[w] <= 1)
    /\ [][(ReviewKeyStep /\ Grades(ev'.key) /\ ev'.fail = "none") =>
            /\ learning_log'[current_item.word_id].interval >= 1
            /\ learning_log'[current_item.word_id].next_review =
                   now + learning_log'[current_item.word_id].interval
            /\ ~IsDue(learning_log'[current_item.word_id], now)
            /\ DueWords' = DueWords \ {current_item.word_id}]_vars

\* every word was due, each was graded once, and the start that followed
\* found nothing due
C37_Witness ==
    /\ EmptyStart
    /\ \A w \in Words : updates[w] = 1
    /\ Len(review_history) = NumWords

\* C38 (StreakSpec): a word that starts as the inserted row (repetition 0,
\* ease factor 2.5) is not Mastered while the grade sequence given to it,
\* whatever its grades in 1..4 and its length, ends in fewer than 10
\* consecutive passes: repetition counts those passes, the interval is at
\* most 21 days until the 10th, and Mastered needs more than 21
C38_NoMasteryBeforeTenthPass ==
    /\ card.repetition = Len(grades)
    /\ Len(grades) < 10 => (card.status # Mastered /\ card.interval <= 21)

\* the 10th consecutive pass made the word Mastered: after the 9th it was
\* Learning with an interval of 20 days
C38_Witness ==
    /\ Len(grades) = 10
    /\ card.status = Mastered
    /\ before.status = Learning
    /\ before.interval = 20

\* C39: in the component front end, when the grade of the last item has
\* completed the session and the application is back on the dashboard, the
\* dashboard's completion message is set
C39_CompletionMessageSet ==
    (arch = "v2" /\ GradeWritten /\ is_complete(TheSession)
        /\ current_screen = "Dashboard") => show_completion_message

====
